---- MODULE Spec2Model ----
(***************************************************************************)
(* The MTProto session state object (class MTProtoState) and the byte sink *)
(* it frames messages into (class BinaryWriter), as a state machine.       *)
(*                                                                         *)
(* Big integers (message ids) are kept as three limbs <<hi, mid, lo>> with *)
(* value hi * 2^32 + mid * 4 + lo, 0 <= mid < 2^30, 0 <= lo < 4, because   *)
(* the values do not fit the model checker's machine integers.             *)
(***************************************************************************)
EXTENDS Integers, Sequences, FiniteSets, TLC

VARIABLES
    authKey,        \* this.authKey: NoAuthKey or [key, keyId]
    salt,           \* this.salt
    id,             \* this.id, the session id
    sequence,       \* this._sequence
    lastMsgId,      \* this._lastMsgId
    timeOffset,     \* this.timeOffset
    msgIds,         \* this.msgIds, the replay window
    securityChecks, \* this.securityChecks
    stream,         \* BinaryWriter._stream of the sink the caller passes
    framed,         \* what the envelope in the sink was framed from (history)
    wire,           \* the encrypted frame last produced, in flight, and what
                    \* its plaintext was framed from
    recorded,       \* number of remote ids recorded since the last reset (history)
    ret,            \* what the last completed operation was given and returned
    calls,          \* number of _getNewMsgId calls so far (history)
    issued,         \* every id _getNewMsgId has returned so far (history)
    genPrev,        \* the id the previous _getNewMsgId call returned (history)
    mark,           \* what happened last: a generator call, a reset, an offset update
    pat,            \* how far the _getSeqNo calls since the counter was 0
                    \* follow ExampleCalls; -1 once they left it (history)
    pending,        \* the async calls suspended at an await, with their locals
    log             \* the async calls in the order they began, and how each
                    \* ended (history)

vars == <<authKey, salt, id, sequence, lastMsgId, timeOffset, msgIds,
          securityChecks, stream, framed, wire, recorded, ret, calls, issued,
          genPrev, mark, pat, pending, log>>

(***************************************************************************)
(* Bounds of the model.                                                    *)
(***************************************************************************)
\* Wall-clock seconds start at Epoch.
Epoch == 1700000000
\* _getNewMsgId is called at most MaxCalls times in a behaviour of the
\* generators alone, at most MaxCallsAll times in one of the whole object.
MaxCalls == 4
MaxCallsAll == 2
\* At most MaxRecorded remote ids are recorded between two resets.
MaxRecorded == 2

(***************************************************************************)
(* Big integers.                                                           *)
(***************************************************************************)
TwoTo30 == 2^30

Zero == <<0, 0, 0>>

\* No id yet (history variables only).
NoId == <<-1, 0, 0>>

\* undefined in a field that holds a big integer otherwise
Unset == <<-9, 0, 0>>

\* bigInt(n).shiftLeft(32), n a JS integer
ShiftLeft32(n) == <<n, 0, 0>>

\* bigInt(n).shiftLeft(2), 0 <= n
ShiftLeft2(n) == <<n \div TwoTo30, n % TwoTo30, 0>>

\* bitwise or of two naturals
RECURSIVE BitOr(_, _)
BitOr(x, y) ==
    IF x = 0 THEN y
    ELSE IF y = 0 THEN x
    ELSE (IF x % 2 = 1 \/ y % 2 = 1 THEN 1 ELSE 0) + 2 * BitOr(x \div 2, y \div 2)

\* a.or(b): limb by limb (a negative hi limb only meets a zero one here)
Or(a, b) == <<BitOr(a[1], b[1]), BitOr(a[2], b[2]), BitOr(a[3], b[3])>>

\* a.add(bigInt(n)), 0 <= n
Add(a, n) ==
    LET lo  == a[3] + n
        mid == a[2] + (lo \div 4)
    IN  <<a[1] + (mid \div TwoTo30), mid % TwoTo30, lo % 4>>

\* a.greaterOrEquals(b)
GreaterOrEquals(a, b) ==
    \/ a[1] > b[1]
    \/ a[1] = b[1] /\ a[2] > b[2]
    \/ a[1] = b[1] /\ a[2] = b[2] /\ a[3] >= b[3]

\* a < b on big integers
Less(a, b) == ~GreaterOrEquals(a, b)

\* a.shiftRight(32).toJSNumber()
ShiftRight32(a) == a[1]

(***************************************************************************)
(* The wall clock: new Date().getTime(), in milliseconds, as <<sec, ms>>.  *)
(* Any read may return any value: the clock may stall, repeat or run back. *)
(***************************************************************************)
Clock == {<<Epoch, 0>>, <<Epoch, 999>>, <<Epoch + 1, 0>>}

\* the seconds the clock may show
ClockSeconds == {t[1] : t \in Clock}

\* Math.floor(now) for now = getTime() / 1000 + timeOffset
NowSeconds(t, offset) == t[1] + offset

\* Math.floor((now - Math.floor(now)) * 1e9); the rounding of the double
\* fraction is left out, the result is below 10^9 either way
Nanoseconds(t) == t[2] * 1000000

(***************************************************************************)
(* Byte buffers are sequences of chunks; a chunk is a tagged tuple.        *)
(***************************************************************************)
\* toSignedLittleBuffer(v, 8): a big integer as 8 bytes
LongChunk(v) == <<"long", v[1], v[2], v[3]>>

\* Buffer.alloc(4) with writeInt32LE(n, 0)
IntChunk(n) == <<"int", n>>

\* the payloads a caller frames: serialized requests
Payloads == {<<"obj", "ping">>, <<"obj", "query">>}

\* the ids a caller may ask to send after
AfterIds == {<<Epoch, 0, 0>>}

\* new Api.InvokeAfterMsg({msgId, query}).getBytes()
InvokeAfterMsg(afterId, data) ==
    <<"invokeAfterMsg", afterId[1], afterId[2], afterId[3], data[2]>>

\* GZIPPacked.gzipIfSmaller(contentRelated, data): the packed bytes when the
\* data is content related and packing shrinks it, the data otherwise
GzipIfSmaller(contentRelated, data) ==
    IF contentRelated /\ data[1] = "obj" /\ data[2] = "query"
    THEN <<"gzipPacked", data[2]>>
    ELSE data

\* length in bytes of one chunk, and buffer.length
RECURSIVE ChunkLen(_), BufLen(_)
ChunkLen(c) ==
    CASE c[1] = "long" -> 8
      [] c[1] = "int" -> 4
      [] c[1] = "obj" -> IF c[2] = "ping" THEN 12 ELSE 40
      [] c[1] = "gzipPacked" -> 32
      [] c[1] = "invokeAfterMsg" -> 12 + (IF c[5] = "ping" THEN 12 ELSE 40)
      [] c[1] = "raw" -> c[2]
      [] c[1] = "rand" -> c[2]
      [] c[1] = "garbage" -> c[2]
      [] c[1] = "key" -> c[4]
      [] c[1] = "sha256" -> c[3] - c[2]
      [] c[1] = "ige" -> BufLen(c[4])

BufLen(buf) == IF buf = <<>> THEN 0 ELSE ChunkLen(Head(buf)) + BufLen(Tail(buf))

\* buffer.slice(n): the bytes from n on; bytes cut out of the middle of a
\* chunk are unknown bytes
RECURSIVE Drop(_, _)
Drop(buf, n) ==
    IF n = 0 \/ buf = <<>> THEN buf
    ELSE IF ChunkLen(Head(buf)) <= n
         THEN Drop(Tail(buf), n - ChunkLen(Head(buf)))
         ELSE <<<<"garbage", ChunkLen(Head(buf)) - n>>>> \o Tail(buf)

\* buffer.slice(0, n): the first n bytes
RECURSIVE Take(_, _)
Take(buf, n) ==
    IF n = 0 \/ buf = <<>> THEN <<>>
    ELSE IF ChunkLen(Head(buf)) <= n
         THEN <<Head(buf)>> \o Take(Tail(buf), n - ChunkLen(Head(buf)))
         ELSE <<<<"garbage", n>>>>

\* buffer.slice(a, b)
Slice(buf, a, b) == Take(Drop(buf, a), b - a)

\* reader.readLong() and helpers.readBigIntFromBuffer on an 8 byte chunk
ReadLong(c) == IF c[1] = "long" THEN <<c[2], c[3], c[4]>> ELSE <<-2, 0, 0>>

\* reader.readInt() on a 4 byte chunk
ReadInt(c) == IF c[1] = "int" THEN c[2] ELSE -2

\* helpers.generateRandomBytes(n); r is the draw
RandomBytes(n, r) == <<"rand", n, r>>

\* the remainder operator of JavaScript
JsRem(n, m) == IF n >= 0 THEN n % m ELSE -((-n) % m)

\* helpers.mod(n, m)
Mod(n, m) == JsRem(JsRem(n, m) + m, m)

\* encryptMessageData with the padding that only rounds up to the block
PaddingLengthBare(len) == Mod(-len, 16)

\* encryptMessageData: the number of random bytes appended to len bytes
PaddingLength(len) == Mod(-(len + 12), 16) + 12

(***************************************************************************)
(* The authorization key, the hash and the cipher.                         *)
(***************************************************************************)
\* the keys of the model: one whose bytes all differ over any 8 byte shift
\* and one whose bytes repeat with period 8
KeyNames == {"generic", "periodic"}

\* the period of the key's bytes: byte i (from 0) of the 256 byte key is
\* i % KeyPeriod(k)
KeyPeriod(k) == IF k = "generic" THEN 256 ELSE 8

\* AuthKey.keyId
KeyIdOf(k) == IF k = "generic" THEN <<11, 0, 0>> ELSE <<12, 0, 0>>

\* an MTProtoState built without an authKey
NoAuthKey == [set |-> FALSE, key |-> "none", hasKeyId |-> FALSE, keyId |-> Zero]

\* an AuthKey that holds key k
AuthKeyOf(k) == [set |-> TRUE, key |-> k, hasKeyId |-> TRUE, keyId |-> KeyIdOf(k)]

\* authKey.slice(a, b) of the key bytes: the bytes of two slices of a key
\* are equal exactly when these chunks are (KeyByte: the generic key's bytes
\* all differ, the periodic key's repeat every KeyPeriod(k) bytes)
KeySlice(k, a, b) == <<"key", k, a % KeyPeriod(k), b - a>>

\* sha256(input).slice(a, b): the hash is collision free
Sha256Slice(input, a, b) == <<"sha256", a, b, input>>

\* new IGE(key, iv).encryptIge(plain)
EncryptIge(key, iv, plain) == <<<<"ige", key, iv, plain>>>>

\* new IGE(key, iv).decryptIge(cipher): the plaintext under the key and iv
\* it was encrypted with, unknown bytes under any other
DecryptIge(key, iv, cipher) ==
    IF /\ Len(cipher) = 1
       /\ cipher[1][1] = "ige"
       /\ cipher[1][2] = key
       /\ cipher[1][3] = iv
    THEN cipher[1][4]
    ELSE <<<<"garbage", BufLen(cipher)>>>>

\* _calcKey(authKey, msgKey, client): msgKey is the 16 byte chunk
CalcKey(k, msgKey, client) ==
    LET x == IF client THEN 0 ELSE 8
        sha256a == <<msgKey, KeySlice(k, x, x + 36)>>
        sha256b == <<KeySlice(k, x + 40, x + 76), msgKey>>
    IN  [key |-> <<Sha256Slice(sha256a, 0, 8), Sha256Slice(sha256b, 8, 24),
                   Sha256Slice(sha256a, 24, 32)>>,
         iv  |-> <<Sha256Slice(sha256b, 0, 8), Sha256Slice(sha256a, 8, 24),
                   Sha256Slice(sha256b, 24, 32)>>]

\* what the server sends: the frame of one message under key k, built as
\* the protocol has the server build it (x = 8, msg_key from bytes 96..128)
ServerFrame(k, srvSalt, sid, msgId, seqNo, obj, r) ==
    LET data    == <<LongChunk(srvSalt), LongChunk(sid), LongChunk(msgId),
                     IntChunk(seqNo), IntChunk(ChunkLen(obj)), obj>>
        padding == RandomBytes(PaddingLength(BufLen(data)), r)
        plain   == data \o <<padding>>
        msgKey  == Sha256Slice(<<KeySlice(k, 96, 128)>> \o plain, 8, 24)
        kiv     == CalcKey(k, msgKey, FALSE)
    IN  <<LongChunk(KeyIdOf(k)), msgKey>> \o EncryptIge(kiv.key, kiv.iv, plain)

(***************************************************************************)
(* MTProtoState: construction.                                             *)
(***************************************************************************)
\* helpers.generateRandomLong(true)
SessionIds == {<<7, 0, 1>>, <<-3, 5, 2>>}

\* no envelope (history variables only)
NoFrame == [msgId |-> NoId, seqNo |-> -1, body |-> <<"none">>]

\* new MTProtoState(authKey, loggers, securityChecks), which ends in reset();
\* sid is the session id reset() draws
Constructor(key, checks, sid) ==
    /\ authKey = key
    /\ securityChecks = checks
    /\ timeOffset = 0
    /\ salt = Zero
    /\ sequence = 0
    /\ lastMsgId = Zero
    /\ msgIds = <<>>
    /\ id = sid
    /\ stream = <<>>
    /\ framed = NoFrame
    /\ wire = [bytes |-> <<>>, framed |-> NoFrame]
    /\ recorded = 0
    /\ ret = [op |-> "constructor"]
    /\ calls = 0
    /\ issued = {}
    /\ genPrev = NoId
    /\ mark = "init"
    /\ pat = 0
    /\ pending = {}
    /\ log = <<>>

(***************************************************************************)
(* MTProtoState: message ids and sequence numbers.                         *)
(***************************************************************************)
\* the id built from the clock read t and the offset
ClockMsgId(t, offset) ==
    Or(ShiftLeft32(NowSeconds(t, offset)), ShiftLeft2(Nanoseconds(t)))

\* _getNewMsgId with greater in place of greaterOrEquals
GetNewMsgIdGreater(last, t, offset) ==
    IF Less(ClockMsgId(t, offset), last)
    THEN Add(last, 4) ELSE ClockMsgId(t, offset)

\* _getNewMsgId with the fallback adding 1
GetNewMsgIdAddOne(last, t, offset) ==
    IF GreaterOrEquals(last, ClockMsgId(t, offset))
    THEN Add(last, 1) ELSE ClockMsgId(t, offset)

\* _getNewMsgId without the fallback
GetNewMsgIdNoFallback(last, t, offset) == ClockMsgId(t, offset)

\* _getNewMsgId: the id returned, which is also the new _lastMsgId;
\* t is the clock read
GetNewMsgId(last, t, offset) ==
    LET newMsgId == ClockMsgId(t, offset)
    IN  IF GreaterOrEquals(last, newMsgId) THEN Add(last, 4) ELSE newMsgId

\* the example calls of _getSeqNo: content, content, non-content, content
ExampleCalls == <<TRUE, TRUE, FALSE, TRUE>>

\* _getSeqNo: the sequence number returned
SeqNoResult(seq, contentRelated) ==
    IF contentRelated THEN seq * 2 + 1 ELSE seq * 2

\* _getSeqNo advancing the counter on every call
SeqNoNextAlways(seq, contentRelated) == seq + 1

\* _getSeqNo: the new _sequence
SeqNoNext(seq, contentRelated) ==
    IF contentRelated THEN seq + 1 ELSE seq

\* reset() keeping the replay window
ResetKeepingWindow(sid) ==
    /\ id' = sid
    /\ sequence' = 0
    /\ lastMsgId' = Zero
    /\ ret' = [op |-> "reset", dropped |-> msgIds]
    /\ mark' = "reset"
    /\ pat' = 0
    /\ recorded' = 0
    /\ UNCHANGED <<authKey, salt, timeOffset, msgIds, securityChecks, stream,
                   framed, wire, calls, issued, genPrev, pending, log>>

\* reset(); sid is the random session id drawn; ret keeps the window the
\* call emptied
Reset(sid) ==
    /\ id' = sid
    /\ sequence' = 0
    /\ lastMsgId' = Zero
    /\ msgIds' = <<>>
    /\ ret' = [op |-> "reset", dropped |-> msgIds]
    /\ mark' = "reset"
    /\ pat' = 0
    /\ recorded' = 0
    /\ UNCHANGED <<authKey, salt, timeOffset, securityChecks, stream, framed,
                   wire, calls, issued, genPrev, pending, log>>

\* updateMessageId(message); t is the clock read
UpdateMessageId(t) ==
    /\ LET msgId == GetNewMsgId(lastMsgId, t, timeOffset)
       IN  /\ lastMsgId' = msgId
           /\ ret' = [op |-> "updateMessageId", t |-> t, msgId |-> msgId,
                      repeat |-> msgId \in issued, mark |-> mark]
           /\ issued' = issued \cup {msgId}
           /\ genPrev' = msgId
    /\ calls' = calls + 1
    /\ mark' = "gen"
    /\ UNCHANGED <<authKey, salt, id, sequence, timeOffset, msgIds,
                   securityChecks, stream, framed, wire, recorded, pat>>
    /\ UNCHANGED <<pending, log>>

\* BinaryWriter.write(buffer): the new _stream
Write(old, buffer) == old \o buffer

\* writeDataAsMessage: the body, as the awaited gzipIfSmaller returns it
MessageBody(data, contentRelated, afterId) ==
    IF afterId = NoId
    THEN GzipIfSmaller(contentRelated, data)
    ELSE GzipIfSmaller(contentRelated, InvokeAfterMsg(afterId, data))

\* writeDataAsMessage: Buffer.concat([m, s, b])
Header(msgId, seqNo, body) ==
    <<LongChunk(msgId), IntChunk(seqNo), IntChunk(ChunkLen(body))>>

\* writeDataAsMessage(buffer, data, contentRelated, afterId), run to its end
\* with no other call in between; buffer is the _stream of the sink passed,
\* t the clock read
WriteDataAsMessage(buffer, t, data, contentRelated, afterId) ==
    /\ LET msgId == GetNewMsgId(lastMsgId, t, timeOffset)
           seqNo == SeqNoResult(sequence, contentRelated)
           body  == MessageBody(data, contentRelated, afterId)
       IN  /\ lastMsgId' = msgId
           /\ sequence' = SeqNoNext(sequence, contentRelated)
           /\ stream' = Write(Write(buffer, Header(msgId, seqNo, body)),
                              <<body>>)
           /\ framed' = [msgId |-> msgId, seqNo |-> seqNo, body |-> body]
           /\ ret' = [op |-> "writeDataAsMessage", t |-> t, msgId |-> msgId,
                      repeat |-> msgId \in issued, mark |-> mark,
                      seqNo |-> seqNo, contentRelated |-> contentRelated]
           /\ issued' = issued \cup {msgId}
           /\ genPrev' = msgId
           /\ pat' = IF pat \in 0 .. 3 /\ ExampleCalls[pat + 1] = contentRelated
                     THEN pat + 1 ELSE -1
    /\ calls' = calls + 1
    /\ mark' = "gen"
    /\ UNCHANGED <<authKey, salt, id, timeOffset, msgIds, securityChecks, wire,
                   recorded>>
    /\ UNCHANGED <<pending, log>>

\* the known good ids the caller corrects the clock with
CorrectMsgIds == {<<s, 0, 1>> : s \in ClockSeconds}

\* updateTimeOffset(correctMsgId): the offset it computes; now is the
\* second clock read, in seconds
NewTimeOffset(correctMsgId, now) == ShiftRight32(correctMsgId) - now

\* updateTimeOffset keeping _lastMsgId
LastMsgIdKept(bad, old, new) == bad

\* updateTimeOffset(correctMsgId): the new _lastMsgId, bad being the id
\* just generated
LastMsgIdAfterUpdate(bad, old, new) == IF new # old THEN Zero ELSE bad

\* updateTimeOffset(correctMsgId); t is the clock read of _getNewMsgId and
\* now the seconds of the clock read that follows
UpdateTimeOffset(t, now, correctMsgId) ==
    /\ LET bad == GetNewMsgId(lastMsgId, t, timeOffset)
           old == timeOffset
           new == NewTimeOffset(correctMsgId, now)
       IN  /\ timeOffset' = new
           /\ lastMsgId' = LastMsgIdAfterUpdate(bad, old, new)
           /\ ret' = [op |-> "updateTimeOffset", t |-> t, msgId |-> bad,
                      repeat |-> bad \in issued, mark |-> mark,
                      offset |-> new]
           /\ issued' = issued \cup {bad}
           /\ genPrev' = bad
           /\ mark' = IF new # old THEN "changed" ELSE "same"
    /\ calls' = calls + 1
    /\ UNCHANGED <<authKey, salt, id, sequence, msgIds, securityChecks,
                   stream, framed, wire, recorded, pat>>
    /\ UNCHANGED <<pending, log>>

\* the owner of the state assigns the public field salt (the server issued
\* a new salt), or leaves it unset
SetSalt(v) ==
    /\ salt' = v
    /\ ret' = [op |-> "salt"]
    /\ UNCHANGED <<authKey, id, sequence, lastMsgId, timeOffset, msgIds,
                   securityChecks, stream, framed, wire, recorded, calls,
                   issued, genPrev, mark, pat, pending, log>>

\* the owner of the state assigns the public field id
SetId(v) ==
    /\ id' = v
    /\ ret' = [op |-> "id"]
    /\ UNCHANGED <<authKey, salt, sequence, lastMsgId, timeOffset, msgIds,
                   securityChecks, stream, framed, wire, recorded, calls,
                   issued, genPrev, mark, pat, pending, log>>

(***************************************************************************)
(* MTProtoState: encryption and decryption.                                *)
(***************************************************************************)
\* encryptMessageData looking at the key id alone
UnsetParamsKeyIdOnly(ak, theSalt, sid) == ~ak.hasKeyId

\* encryptMessageData: !this.salt || !this.id || !authKey ||
\* !this.authKey.keyId, the key bytes being there; a big integer, zero
\* included, is an object and not falsy
UnsetParams(ak, theSalt, sid) ==
    theSalt = Unset \/ sid = Unset \/ ~ak.hasKeyId

\* encryptMessageData(data): the error thrown ("none": no error) and the
\* bytes returned; r is the draw of the random padding
EncryptResult(ak, theSalt, sid, data, r) ==
    IF ~ak.set THEN [err |-> "Auth key unset", bytes |-> <<>>]
    ELSE IF ak.key = "none" THEN [err |-> "Auth key unset", bytes |-> <<>>]
    ELSE IF UnsetParams(ak, theSalt, sid)
    THEN [err |-> "Unset params", bytes |-> <<>>]
    ELSE
        LET s == LongChunk(theSalt)
            i == LongChunk(sid)
            d == <<s, i>> \o data
            padding == RandomBytes(PaddingLength(BufLen(d)), r)
            msgKey == Sha256Slice(<<KeySlice(ak.key, 88, 88 + 32)>> \o d
                                      \o <<padding>>, 8, 24)
            kiv == CalcKey(ak.key, msgKey, TRUE)
            keyId == LongChunk(ak.keyId)
        IN  [err |-> "none",
             bytes |-> <<keyId, msgKey>>
                        \o EncryptIge(kiv.key, kiv.iv, d \o <<padding>>)]

\* encryptMessageData(data) taking a sequence number for the frame
EncryptMessageDataCounting(data, r) ==
    /\ ret' = [op |-> "encryptMessageData",
               err |-> EncryptResult(authKey, salt, id, data, r).err]
    /\ sequence' = sequence + 1
    /\ UNCHANGED <<authKey, salt, id, lastMsgId, timeOffset, msgIds,
                   securityChecks, stream, framed, wire, recorded, calls,
                   issued, genPrev, mark, pat, pending, log>>

\* encryptMessageData(data), the wait for the key over; r is the draw of
\* the random padding
EncryptMessageData(data, r) ==
    /\ LET res == EncryptResult(authKey, salt, id, data, r)
       IN  /\ ret' = [op |-> "encryptMessageData", err |-> res.err]
           /\ wire' = IF res.err = "none"
                      THEN [bytes |-> res.bytes, framed |-> framed]
                      ELSE wire
    /\ UNCHANGED <<authKey, salt, id, sequence, lastMsgId, timeOffset, msgIds,
                   securityChecks, stream, framed, recorded, calls, issued,
                   genPrev, mark, pat>>
    /\ UNCHANGED <<pending, log>>

\* the size the replay window is compared with
WindowLimit == 500

\* remoteMsgId.toString()
IdString(v) == ToString(v)

\* this.msgIds.includes(s)
Includes(ids, str) == \E n \in 1 .. Len(ids) : ids[n] = str

\* the replay window after the id is recorded: shift() when it holds more
\* than the limit, then push()
RecordId(ids, remoteMsgId) ==
    Append(IF Len(ids) > WindowLimit THEN Tail(ids) ELSE ids,
           IdString(remoteMsgId))

\* decryptMessageData reading the message id ahead of the session id
ParsePlainSwapped(plain) ==
    [serverId |-> ReadLong(plain[3]), remoteMsgId |-> ReadLong(plain[2]),
     remoteSequence |-> ReadInt(plain[4]), obj |-> plain[6]]

\* decryptMessageData: the fields the reader takes from the plaintext
ParsePlain(plain) ==
    [serverId |-> ReadLong(plain[2]), remoteMsgId |-> ReadLong(plain[3]),
     remoteSequence |-> ReadInt(plain[4]), obj |-> plain[6]]

\* the duplicate check of decryptMessageData without the securityChecks flag
IsDuplicateAlways(ids, remoteMsgId, checks) ==
    Includes(ids, IdString(remoteMsgId))

\* decryptMessageData never finding a duplicate
IsDuplicateNever(ids, remoteMsgId, checks) == FALSE

\* decryptMessageData: whether the id is rejected as a duplicate
IsDuplicate(ids, remoteMsgId, checks) ==
    Includes(ids, IdString(remoteMsgId)) /\ checks

\* decryptMessageData taking any msg_key for the expected one
KeyMatchesAlways(msgKey, ourKey) == TRUE

\* decryptMessageData: msgKey.equals(ourKey.slice(8, 24)), ourKey being the
\* slice already
KeyMatches(msgKey, ourKey) == msgKey = <<ourKey>>

\* decryptMessageData rejecting a foreign session id
SessionIdRejectedOnMismatch(serverId, sid) == serverId # sid

\* decryptMessageData: whether the message is rejected for its session id;
\* the body of the if (serverId.neq(this.id)) is empty
SessionIdRejected(serverId, sid) == FALSE

\* reader.tgReadObject(): whether it throws; it does on bytes that start
\* with no known constructor id
TgReadObjectThrows(obj) == obj[1] = "obj" /\ obj[2] = "unknown"

\* decryptMessageData(body): the error thrown ("none": no error), the remote
\* id read, the TLMessage returned and the new replay window
DecryptResult(ak, sid, ids, checks, body) ==
    LET fail(e) == [err |-> e, remoteMsgId |-> NoId, remoteSequence |-> -1,
                    obj |-> <<"none">>, msgIds |-> ids]
    IN
    IF ~ak.set THEN fail("Auth key unset")
    ELSE IF BufLen(body) < 8 THEN fail("InvalidBufferError")
    ELSE IF ~ak.hasKeyId \/ ReadLong(Slice(body, 0, 8)[1]) # ak.keyId
    THEN fail("Server replied with an invalid auth key")
    ELSE IF ak.key = "none" THEN fail("Unset AuthKey")
    ELSE
        LET msgKey == Slice(body, 8, 24)
            kiv    == CalcKey(ak.key, msgKey[1], FALSE)
            plain  == DecryptIge(kiv.key, kiv.iv, Drop(body, 24))
            ourKey == Sha256Slice(<<KeySlice(ak.key, 96, 96 + 32)>> \o plain,
                                  8, 24)
        IN  IF ~KeyMatches(msgKey, ourKey)
            THEN fail("Received msg_key doesn't match with expected one")
            ELSE
                LET m == ParsePlain(plain)
                IN  IF SessionIdRejected(m.serverId, sid)
                    THEN fail("Server replied with a wrong session ID")
                    ELSE IF IsDuplicate(ids, m.remoteMsgId, checks)
                    THEN [err |-> "Duplicate msgIds",
                          remoteMsgId |-> m.remoteMsgId,
                          remoteSequence |-> -1, obj |-> <<"none">>,
                          msgIds |-> ids]
                    ELSE IF TgReadObjectThrows(m.obj)
                    THEN [err |-> "TypeNotFoundError",
                          remoteMsgId |-> m.remoteMsgId,
                          remoteSequence |-> -1, obj |-> <<"none">>,
                          msgIds |-> RecordId(ids, m.remoteMsgId)]
                    ELSE [err |-> "none", remoteMsgId |-> m.remoteMsgId,
                          remoteSequence |-> m.remoteSequence, obj |-> m.obj,
                          msgIds |-> RecordId(ids, m.remoteMsgId)]

\* decryptMessageData(body); src tells where body comes from: "own", the
\* frame encryptMessageData of this state produced; "mirror", the envelope in
\* the sink framed as the server frames; "server", a message of the server;
\* "broken", no frame; again tells whether the id read was in the window
\* that a reset() just ahead of this call emptied
DecryptMessageData(body, src) ==
    /\ LET res == DecryptResult(authKey, id, msgIds, securityChecks, body)
       IN  /\ msgIds' = res.msgIds
           /\ recorded' = IF res.msgIds # msgIds THEN recorded + 1 ELSE recorded
           /\ ret' = [op |-> "decryptMessageData", err |-> res.err,
                      src |-> src,
                      remoteMsgId |-> res.remoteMsgId,
                      remoteSequence |-> res.remoteSequence,
                      obj |-> res.obj,
                      seen |-> Includes(msgIds, IdString(res.remoteMsgId)),
                      again |-> /\ ret.op = "reset"
                                /\ Includes(ret.dropped,
                                            IdString(res.remoteMsgId))]
    /\ UNCHANGED <<authKey, salt, id, sequence, lastMsgId, timeOffset,
                   securityChecks, stream, framed, wire, calls, issued,
                   genPrev, mark, pat>>
    /\ UNCHANGED <<pending, log>>

(***************************************************************************)
(* The async operations step by step: a call runs up to an await, is       *)
(* suspended in pending, and goes on when the awaited promise resolves;    *)
(* the promises of different calls resolve in any order. log has one       *)
(* entry per call, in the order the calls began.                           *)
(***************************************************************************)
\* a call in log: the id is the message id drawn (writeDataAsMessage) or
\* the remote id the frame carries (decryptMessageData); err is "pending"
\* until the call ends; overlapped tells whether a call of the same kind
\* (and, for decryptMessageData, the same id) was suspended when it began
LogEntry(op, msgId, seqNo, err, overlapped) ==
    [op |-> op, id |-> msgId, seqNo |-> seqNo, err |-> err,
     overlapped |-> overlapped]

\* writeDataAsMessage up to its await (lines 106-120): the ids are drawn,
\* gzipIfSmaller is called
WriteBegin(t, data, contentRelated, afterId) ==
    /\ LET msgId == GetNewMsgId(lastMsgId, t, timeOffset)
           seqNo == SeqNoResult(sequence, contentRelated)
       IN  /\ lastMsgId' = msgId
           /\ sequence' = SeqNoNext(sequence, contentRelated)
           /\ pending' = pending \cup
                 {[n |-> Len(log) + 1, op |-> "writeDataAsMessage",
                   pc |-> "gzipIfSmaller", msgId |-> msgId, seqNo |-> seqNo,
                   body |-> MessageBody(data, contentRelated, afterId)]}
           /\ log' = Append(log,
                 LogEntry("writeDataAsMessage", msgId, seqNo, "pending",
                          \E c \in pending : c.op = "writeDataAsMessage"))
           /\ issued' = issued \cup {msgId}
           /\ genPrev' = msgId
    /\ calls' = calls + 1
    /\ mark' = "gen"
    /\ ret' = [op |-> "await"]
    /\ UNCHANGED <<authKey, salt, id, timeOffset, msgIds, securityChecks,
                   stream, framed, wire, recorded, pat>>

\* writeDataAsMessage from its await on (lines 121-129): header and body
\* go to the sink, which is the one sink all the calls were given
WriteEnd(c) ==
    /\ c.op = "writeDataAsMessage"
    /\ stream' = Write(Write(stream, Header(c.msgId, c.seqNo, c.body)),
                       <<c.body>>)
    /\ pending' = pending \ {c}
    /\ log' = [log EXCEPT ![c.n].err = "none"]
    /\ ret' = [op |-> "writeDataAsMessage"]
    /\ UNCHANGED <<authKey, salt, id, sequence, lastMsgId, timeOffset, msgIds,
                   securityChecks, framed, wire, recorded, calls, issued,
                   genPrev, mark, pat>>

\* decryptMessageData up to its first await (lines 170-183): a call that
\* throws here is over, any other waits for _calcKey; rid is the remote id
\* the frame carries
DecryptBegin(body, rid) ==
    LET res == DecryptResult(authKey, id, msgIds, securityChecks, body)
        early == res.err \in {"Auth key unset", "InvalidBufferError",
                              "Server replied with an invalid auth key",
                              "Unset AuthKey"}
        overlapped == \E c \in pending :
                         c.op = "decryptMessageData" /\ c.rid = rid
    IN  /\ pending' = IF early THEN pending
                      ELSE pending \cup
                           {[n |-> Len(log) + 1, op |-> "decryptMessageData",
                             pc |-> "_calcKey", body |-> body, rid |-> rid]}
        /\ log' = Append(log,
              LogEntry("decryptMessageData", rid, -1,
                       IF early THEN res.err ELSE "pending", overlapped))
        /\ ret' = [op |-> "await"]
        /\ UNCHANGED <<authKey, salt, id, sequence, lastMsgId, timeOffset,
                       msgIds, securityChecks, stream, framed, wire, recorded,
                       calls, issued, genPrev, mark, pat>>

\* decryptMessageData between its two awaits (lines 183-189): the key and
\* iv are there, the body is decrypted, sha256 is called
DecryptHash(c) ==
    /\ c.op = "decryptMessageData"
    /\ c.pc = "_calcKey"
    /\ pending' = (pending \ {c}) \cup {[c EXCEPT !.pc = "sha256"]}
    /\ ret' = [op |-> "await"]
    /\ UNCHANGED <<authKey, salt, id, sequence, lastMsgId, timeOffset, msgIds,
                   securityChecks, stream, framed, wire, recorded, calls,
                   issued, genPrev, mark, pat, log>>

\* decryptMessageData from its last await on (lines 190-215): the msg_key
\* check, the reads, the duplicate check and the push, on the fields as
\* they are now (the authKey is the one the call began with: no operation
\* assigns it)
DecryptEnd(c) ==
    /\ c.op = "decryptMessageData"
    /\ c.pc = "sha256"
    /\ LET res == DecryptResult(authKey, id, msgIds, securityChecks, c.body)
       IN  /\ msgIds' = res.msgIds
           /\ recorded' = IF res.msgIds # msgIds THEN recorded + 1
                          ELSE recorded
           /\ log' = [log EXCEPT ![c.n].err = res.err]
    /\ pending' = pending \ {c}
    /\ ret' = [op |-> "decryptMessageData"]
    /\ UNCHANGED <<authKey, salt, id, sequence, lastMsgId, timeOffset,
                   securityChecks, stream, framed, wire, calls, issued,
                   genPrev, mark, pat>>

(***************************************************************************)
(* The message id and sequence number generators alone.                    *)
(***************************************************************************)
InitMsgId == Constructor(NoAuthKey, TRUE, <<7, 0, 1>>)

NextMsgId ==
    \/ Reset(<<7, 0, 1>>)
    \/ \E t \in Clock : calls < MaxCalls /\ UpdateMessageId(t)
    \/ \E t \in Clock, contentRelated \in BOOLEAN :
         /\ calls < MaxCalls
         /\ WriteDataAsMessage(<<>>, t, <<"obj", "ping">>, contentRelated, NoId)
    \/ \E t \in Clock, now \in ClockSeconds, correctMsgId \in CorrectMsgIds :
         calls < MaxCalls /\ UpdateTimeOffset(t, now, correctMsgId)

SpecMsgId == InitMsgId /\ [][NextMsgId]_vars

(***************************************************************************)
(* The whole state object.                                                 *)
(***************************************************************************)
\* the ids the server gives its messages
RemoteMsgIds == {<<Epoch, 0, 1>>, <<Epoch, 4, 1>>}

\* the messages of the server that may arrive, under the key in use
ServerFrames ==
    {ServerFrame(authKey.key, Zero, id, rid, 1, <<"obj", "ping">>, 0) :
       rid \in RemoteMsgIds}

\* the envelope in the sink, framed as the server frames
MirrorFrame ==
    ServerFrame(authKey.key, salt, id, framed.msgId, framed.seqNo,
                framed.body, 0)

Init ==
    \E k \in KeyNames, checks \in BOOLEAN :
        Constructor(AuthKeyOf(k), checks, <<7, 0, 1>>)

\* the incoming frames: decryptMessageData on each kind of them
Receive ==
    \/ /\ wire.bytes # <<>>
       /\ recorded < MaxRecorded
       /\ DecryptMessageData(wire.bytes, "own")
    \/ /\ framed # NoFrame
       /\ recorded < MaxRecorded
       /\ DecryptMessageData(MirrorFrame, "mirror")
    \/ \E body \in ServerFrames :
         recorded < MaxRecorded /\ DecryptMessageData(body, "server")
    \/ DecryptMessageData(<<IntChunk(0)>>, "broken")

Next ==
    \/ Reset(<<7, 0, 1>>)
    \/ calls < MaxCallsAll /\ UpdateMessageId(<<Epoch, 0>>)
    \/ /\ calls < MaxCallsAll
       /\ WriteDataAsMessage(<<>>, <<Epoch, 0>>, <<"obj", "ping">>, TRUE, NoId)
    \/ \E correctMsgId \in CorrectMsgIds :
         /\ calls < MaxCallsAll
         /\ UpdateTimeOffset(<<Epoch, 0>>, Epoch, correctMsgId)
    \/ stream # <<>> /\ EncryptMessageData(stream, 0)
    \/ Receive

Spec == Init /\ [][Next]_vars

(***************************************************************************)
(* Framing, encryption and decryption alone.                               *)
(***************************************************************************)
\* at most MaxFramed envelopes are framed in a behaviour of this part
MaxFramed == 1

\* what the caller frames: a plain request, one that packing shrinks, and
\* one to be sent after another message
WriteInputs ==
    {<<d, c, a>> \in Payloads \X BOOLEAN \X (AfterIds \cup {NoId}) :
       \/ d[2] = "ping" /\ ~c /\ a = NoId
       \/ d[2] = "query" /\ c /\ a = NoId
       \/ d[2] = "ping" /\ c /\ a # NoId}

NextCrypto ==
    \/ Reset(<<7, 0, 1>>)
    \/ \E in \in WriteInputs :
         /\ calls < MaxFramed
         /\ WriteDataAsMessage(<<>>, <<Epoch, 0>>, in[1], in[2], in[3])
    \/ stream # <<>> /\ EncryptMessageData(stream, 0)
    \/ Receive

SpecCrypto == Init /\ [][NextCrypto]_vars

(***************************************************************************)
(* The replay window over a long run of incoming messages.                 *)
(***************************************************************************)
\* at most MaxReceived remote ids are recorded in a behaviour of this run
MaxReceived == 503

\* the n-th id the server uses
RemoteMsgId(n) == <<Epoch, n, 1>>

\* the server's message with the n-th id
FrameOf(n) ==
    ServerFrame(authKey.key, Zero, id, RemoteMsgId(n), 1, <<"obj", "ping">>, 0)

\* the ids the server (or an attacker) repeats: the first one, the newest
\* one and the oldest of the newest WindowLimit ones when checks are on;
\* only the first one when they are off
Repeated ==
    IF securityChecks
    THEN {n \in {1, recorded, recorded - WindowLimit + 1} : n >= 1}
    ELSE {1}

InitReplay ==
    \E checks \in BOOLEAN : Constructor(AuthKeyOf("generic"), checks, <<7, 0, 1>>)

NextReplay ==
    \/ /\ securityChecks
       /\ recorded < MaxReceived
       /\ DecryptMessageData(FrameOf(recorded + 1), "server")
    \/ \E n \in Repeated :
         recorded < MaxReceived /\ DecryptMessageData(FrameOf(n), "server")

SpecReplay == InitReplay /\ [][NextReplay]_vars

(***************************************************************************)
(* The checks of encryptMessageData and decryptMessageData, on every kind  *)
(* of authorization key, salt and session id and on every kind of frame.   *)
(***************************************************************************)
\* at most MaxAccepted remote ids are recorded between two resets here
MaxAccepted == 1

\* the authKey the state is built with: none, one whose key id is known but
\* whose bytes are not there, one with bytes and no key id, a complete one
AuthKeys ==
    {NoAuthKey,
     [set |-> TRUE, key |-> "none", hasKeyId |-> TRUE, keyId |-> KeyIdOf("generic")],
     [set |-> TRUE, key |-> "generic", hasKeyId |-> FALSE, keyId |-> Zero],
     AuthKeyOf("generic")}

\* the values the salt field takes
Salts == {Unset, Zero, <<5, 0, 1>>}

\* the plaintext the caller encrypts here, by its length
Plaintexts == {<<<<"raw", 32>>>>}

\* a frame whose ciphertext decrypts to a well formed plaintext under the
\* key and iv of its msg_key, while the msg_key is not the hash the
\* receiver expects (it is taken over the key bytes 88..120)
ForgedFrame(k, srvSalt, sid, msgId, seqNo, obj, r) ==
    LET data    == <<LongChunk(srvSalt), LongChunk(sid), LongChunk(msgId),
                     IntChunk(seqNo), IntChunk(ChunkLen(obj)), obj>>
        plain   == data \o <<RandomBytes(PaddingLength(BufLen(data)), r)>>
        msgKey  == Sha256Slice(<<KeySlice(k, 88, 120)>> \o plain, 8, 24)
        kiv     == CalcKey(k, msgKey, FALSE)
    IN  <<LongChunk(KeyIdOf(k)), msgKey>> \o EncryptIge(kiv.key, kiv.iv, plain)

\* what arrives: no frame, a frame under another key, a forged frame, and
\* the server's messages under the negotiated key: for this session, for
\* another session, and one carrying an object of no known type
Incoming ==
    {[src |-> "broken", body |-> <<IntChunk(0)>>],
     [src |-> "otherKey",
      body |-> ServerFrame("periodic", Zero, id, <<Epoch, 0, 1>>, 1,
                           <<"obj", "ping">>, 0)],
     [src |-> "forged",
      body |-> ForgedFrame("generic", Zero, id, <<Epoch, 8, 1>>, 1,
                           <<"obj", "ping">>, 0)],
     [src |-> "undecodable",
      body |-> ServerFrame("generic", Zero, id, <<Epoch, 12, 1>>, 1,
                           <<"obj", "unknown">>, 0)]}
    \cup {[src |-> "server",
           body |-> ServerFrame("generic", Zero, id, rid, 1,
                                <<"obj", "ping">>, 0)] : rid \in {<<Epoch, 0, 1>>}}
    \cup {[src |-> "foreign",
           body |-> ServerFrame("generic", Zero, <<9, 9, 1>>, rid, 1,
                                <<"obj", "ping">>, 0)] : rid \in {<<Epoch, 0, 1>>}}

InitChecks ==
    \E ak \in AuthKeys, checks \in BOOLEAN : Constructor(ak, checks, <<7, 0, 1>>)

NextChecks ==
    \/ \E sid \in SessionIds : Reset(sid)
    \/ \E v \in Salts : SetSalt(v)
    \/ SetId(Unset)
    \/ \E data \in Plaintexts : EncryptMessageData(data, 0)
    \/ \E f \in Incoming :
         DecryptMessageData(f.body, f.src) /\ recorded' <= MaxAccepted

SpecChecks == InitChecks /\ [][NextChecks]_vars

(***************************************************************************)
(* reset() among the operations whose effects it undoes or keeps.          *)
(***************************************************************************)
InitReset == Constructor(AuthKeyOf("generic"), TRUE, <<7, 0, 1>>)

NextReset ==
    \/ \E sid \in SessionIds : Reset(sid)
    \/ SetSalt(<<5, 0, 1>>)
    \/ \E contentRelated \in BOOLEAN :
         /\ calls < MaxCallsAll
         /\ WriteDataAsMessage(<<>>, <<Epoch, 0>>, <<"obj", "ping">>,
                               contentRelated, NoId)
    \/ /\ calls < MaxCallsAll
       /\ UpdateTimeOffset(<<Epoch, 0>>, Epoch, <<Epoch + 1, 0, 1>>)
    \/ \E body \in ServerFrames :
         DecryptMessageData(body, "server") /\ recorded' <= MaxAccepted

SpecReset == InitReset /\ [][NextReset]_vars

(***************************************************************************)
(* Overlapping calls of the async operations on one state and one sink.    *)
(***************************************************************************)
\* at most MaxAsync async calls begin in a behaviour
MaxAsync == 3

InitAsync == Constructor(AuthKeyOf("generic"), TRUE, <<7, 0, 1>>)

NextAsync ==
    \/ \E in \in WriteInputs :
         /\ Len(log) < MaxAsync
         /\ WriteBegin(<<Epoch, 0>>, in[1], in[2], in[3])
    \/ \E c \in pending : WriteEnd(c)
    \/ \E rid \in RemoteMsgIds :
         /\ Len(log) < MaxAsync
         /\ DecryptBegin(ServerFrame("generic", Zero, id, rid, 1,
                                     <<"obj", "ping">>, 0), rid)
    \/ Len(log) < MaxAsync /\ DecryptBegin(<<IntChunk(0)>>, NoId)
    \/ \E c \in pending : DecryptHash(c)
    \/ \E c \in pending : DecryptEnd(c)

SpecAsync == InitAsync /\ [][NextAsync]_vars

(***************************************************************************)
(* The padding of encryptMessageData over every length of plaintext.       *)
(***************************************************************************)
\* the longest plaintext encrypted here, in bytes
MaxData == 32

InitPadding == Constructor(AuthKeyOf("generic"), TRUE, <<7, 0, 1>>)

NextPadding ==
    \/ \E v \in Salts : SetSalt(v)
    \/ \E n \in 0 .. MaxData, r \in 0 .. 1 :
         EncryptMessageData(<<<<"raw", n>>>>, r)

SpecPadding == InitPadding /\ [][NextPadding]_vars

(***************************************************************************)
(* Properties.                                                             *)
(***************************************************************************)
\* the operations that hand a generated id to the caller
GenOps == {"updateMessageId", "writeDataAsMessage"}

\* this step called _getNewMsgId
GenStep == calls' = calls + 1

\* C1: with no updateTimeOffset and no reset since the previous call of
\* _getNewMsgId, the id a call returns is strictly greater than the id the
\* previous call returned, whatever the clock reads.
C1_Monotonic == [][GenStep /\ mark = "gen" => Less(genPrev, ret'.msgId)]_vars

\* C1 witness: a call that followed another one directly and could not use
\* the clock (it stalled or ran backward), so that the fallback decided.
C1_Witness ==
    /\ ret.op \in GenOps
    /\ ret.mark = "gen"
    /\ ret.msgId # ClockMsgId(ret.t, timeOffset)

\* C6 as stated: the general rule, and the calls content, content,
\* non-content, content from a counter of 0 return 1, 3, 4, 7.
C6_Original ==
    ret.op = "writeDataAsMessage" /\ pat \in 1 .. 4
        => ret.seqNo = <<1, 3, 4, 7>>[pat]

\* C6 amended: a content-related call returns 2 * sequence + 1 (odd) and adds
\* one to sequence, a non-content call returns 2 * sequence (even) and leaves
\* sequence alone; the calls content, content, non-content, content from a
\* counter of 0 return 1, 3, 4, 5.
C6_SeqNo ==
    /\ [](ret.op = "writeDataAsMessage" /\ pat \in 1 .. 4
            => ret.seqNo = <<1, 3, 4, 5>>[pat])
    /\ [][GenStep /\ ret'.op = "writeDataAsMessage" =>
            IF ret'.contentRelated
            THEN /\ ret'.seqNo = 2 * sequence + 1
                 /\ ret'.seqNo % 2 = 1
                 /\ sequence' = sequence + 1
            ELSE /\ ret'.seqNo = 2 * sequence
                 /\ ret'.seqNo % 2 = 0
                 /\ sequence' = sequence]_vars

\* C6 witness: the fourth call of the example has returned.
C6_Witness == ret.op = "writeDataAsMessage" /\ pat = 4 /\ ret.seqNo = 5

\* C8: an updateTimeOffset that computes another offset than the stored one
\* stores it and sets lastMessageId to zero, and the next id generated is
\* the one built from the clock and the new offset: its top 32 bits are the
\* corrected seconds.
C8_SkewCorrection ==
    [][/\ (GenStep /\ ret'.op = "updateTimeOffset" /\ ret'.offset # timeOffset
             => timeOffset' = ret'.offset /\ lastMsgId' = Zero)
       /\ (GenStep /\ mark = "changed"
             => /\ ret'.msgId = ClockMsgId(ret'.t, timeOffset)
                /\ ShiftRight32(ret'.msgId) = ret'.t[1] + timeOffset)]_vars

\* C8 witness: the id generated next after an offset change is smaller than
\* an id generated before the change.
C8_Witness ==
    /\ ret.op \in GenOps
    /\ ret.mark = "changed"
    /\ \E x \in issued : Less(ret.msgId, x)

\* C9: every id returned has its two low bits zero, and with no reset and no
\* offset change in between it is at least 4 above the id returned before.
C9_LowBits ==
    [][GenStep =>
         /\ ret'.msgId[3] = 0
         /\ (mark \in {"gen", "same"}
               => GreaterOrEquals(ret'.msgId, Add(genPrev, 4)))]_vars

\* C9 witness: an id produced by the fallback, exactly 4 above the last one.
C9_Witness ==
    /\ ret.op \in GenOps
    /\ ret.mark = "gen"
    /\ ret.msgId # ClockMsgId(ret.t, timeOffset)
    /\ ret.msgId[3] = 0
    /\ ret.msgId[2] % 1000000 = 1

\* C10: no id returned by _getNewMsgId equals one it returned earlier.
C10_Unique == ret.op \in GenOps \cup {"updateTimeOffset"} => ~ret.repeat

\* a <= b on big integers
LessEq(a, b) == GreaterOrEquals(b, a)

\* C2 as stated: lastMessageId never decreases and every id generated is
\* strictly greater than the one generated before it, under any operations.
C2_Original ==
    [][/\ LessEq(lastMsgId, lastMsgId')
       /\ (GenStep /\ genPrev # NoId => Less(genPrev, ret'.msgId))]_vars

\* C2 amended: lastMessageId never decreases except in reset() and in an
\* updateTimeOffset that changes the offset, and every id generated is
\* strictly greater than lastMessageId as the call found it.
C2_LastMsgId ==
    [][/\ (ret'.op # "reset"
             /\ ~(ret'.op = "updateTimeOffset" /\ timeOffset' # timeOffset)
           => LessEq(lastMsgId, lastMsgId'))
       /\ (GenStep => Less(lastMsgId, ret'.msgId))]_vars

\* C2 witness: an id generated right after a reset, when ids had been
\* generated before the reset.
C2_Witness == ret.op \in GenOps /\ ret.mark = "reset" /\ calls >= 2

\* C3: the replay window never holds more than 500 entries.
C3_WindowBound == Len(msgIds) <= 500

\* C4: once 501 messages with pairwise distinct ids were accepted, with
\* checks on, a message with the first id is not rejected as a duplicate
\* (and one with any of the newest 500 ids is).
C4_FirstEvicted ==
    [][(securityChecks /\ recorded = 501 /\ ret'.op = "decryptMessageData"
          /\ \E n \in 1 .. 501 : ret'.remoteMsgId = RemoteMsgId(n))
       => IF ret'.remoteMsgId = RemoteMsgId(1)
          THEN ret'.err # "Duplicate msgIds"
          ELSE ret'.err = "Duplicate msgIds"]_vars

\* the decrypt errors raised before the plaintext is read
KeyErrors ==
    {"Auth key unset", "InvalidBufferError",
     "Server replied with an invalid auth key", "Unset AuthKey",
     "Received msg_key doesn't match with expected one"}

\* number of entries of the window equal to str
Occurrences(ids, str) == Cardinality({n \in 1 .. Len(ids) : ids[n] = str})

\* C5: a message whose remote id is in the replay window fails with the
\* duplicate error when securityChecks is true; when it is false the call
\* succeeds and the id is recorded again.
C5_Duplicate ==
    [][(ret'.op = "decryptMessageData"
          /\ ret'.err \notin KeyErrors
          /\ Includes(msgIds, IdString(ret'.remoteMsgId)))
         => IF securityChecks
            THEN ret'.err = "Duplicate msgIds" /\ msgIds' = msgIds
            ELSE /\ ret'.err = "none"
                 /\ msgIds'[Len(msgIds')] = IdString(ret'.remoteMsgId)
                 /\ Occurrences(msgIds', IdString(ret'.remoteMsgId))
                      = Occurrences(msgIds, IdString(ret'.remoteMsgId)) + 1]_vars

\* C5 witness: with checks off, a repeated id was accepted and is in the
\* window twice.
C5_Witness ==
    /\ ret.op = "decryptMessageData"
    /\ ~securityChecks
    /\ ret.seen
    /\ ret.err = "none"
    /\ Occurrences(msgIds, IdString(ret.remoteMsgId)) = 2

\* the x = 0 and the x = 8 windows of the key hold the same bytes
WindowsCoincide(k) ==
    /\ KeySlice(k, 0, 36) = KeySlice(k, 8, 44)
    /\ KeySlice(k, 40, 76) = KeySlice(k, 48, 84)
    /\ KeySlice(k, 88, 120) = KeySlice(k, 96, 128)

\* decryptMessageData passed the key identifier and msg_key checks and, when
\* it returned, returned what the frame f was framed from
Decoded(f) ==
    /\ ret.err \notin KeyErrors
    /\ ret.remoteMsgId = f.msgId
    /\ (ret.err = "none" =>
          ret.remoteSequence = f.seqNo /\ ret.obj = f.body)

\* C7 as stated: decryptMessageData of the same state accepts the output of
\* encryptMessageData(P) and yields what P was framed from.
C7_Original ==
    ret.op = "decryptMessageData" /\ ret.src = "own" => Decoded(wire.framed)

\* C7 amended: decryptMessageData accepts the envelope P framed in the
\* server's direction and yields the id, sequence number and body framed in
\* P; the output of encryptMessageData(P) itself it accepts only under a key
\* whose x = 0 and x = 8 windows coincide, and rejects with the msg_key error
\* under any other key.
C7_RoundTrip ==
    /\ (ret.op = "decryptMessageData" /\ ret.src = "mirror" => Decoded(framed))
    /\ (ret.op = "decryptMessageData" /\ ret.src = "own" =>
          IF WindowsCoincide(authKey.key)
          THEN Decoded(wire.framed)
          ELSE ret.err = "Received msg_key doesn't match with expected one")

\* C7 witness: an envelope framed in the server's direction was decrypted
\* and returned.
C7_Witness ==
    /\ ret.op = "decryptMessageData"
    /\ ret.src = "mirror"
    /\ ret.err = "none"
    /\ ret.remoteMsgId = framed.msgId
    /\ ~WindowsCoincide(authKey.key)

\* the fields of the protocol state
StateFields ==
    <<authKey, salt, id, sequence, lastMsgId, timeOffset, msgIds,
      securityChecks>>

\* the errors decryptMessageData throws ahead of the replay step
FailuresBeforeRecord ==
    {"Auth key unset", "InvalidBufferError",
     "Server replied with an invalid auth key", "Unset AuthKey",
     "Received msg_key doesn't match with expected one", "Duplicate msgIds"}

C12_EncryptFrame ==
    [][ret'.op = "encryptMessageData"
       => UNCHANGED <<id, salt, timeOffset, lastMsgId, sequence, msgIds>>]_vars

\* encryptMessageData threw on a state with a recorded id
C12_Witness ==
    /\ ret.op = "encryptMessageData"
    /\ ret.err = "Unset params"
    /\ msgIds # <<>>

\* C13: the padding of every frame encryptMessageData returns is 12 to 27
\* bytes long and fills salt, session id and data up to a multiple of 16
\* bytes, and so is the ciphertext.
C13_Padding ==
    wire.bytes # <<>>
    => LET plain   == wire.bytes[3][4]
           padding == plain[Len(plain)]
           len     == BufLen(plain) - ChunkLen(padding)
       IN  /\ padding[1] = "rand"
           /\ ChunkLen(padding) \in 12 .. 27
           /\ (len + ChunkLen(padding)) % 16 = 0
           /\ BufLen(Drop(wire.bytes, 24)) % 16 = 0

\* a frame with the longest padding, and the data not empty
C13_Witness ==
    /\ wire.bytes # <<>>
    /\ LET plain == wire.bytes[3][4]
       IN  ChunkLen(plain[Len(plain)]) = 27 /\ BufLen(plain) > 48

\* C14: encryptMessageData returns a frame exactly when the authKey is
\* there, has its key bytes and its key id, and salt and id are set;
\* otherwise it throws and returns nothing.
C14_EncryptPreconditions ==
    [][ret'.op = "encryptMessageData"
       => LET ok == /\ authKey.set
                    /\ authKey.key # "none"
                    /\ authKey.hasKeyId
                    /\ salt # Unset
                    /\ id # Unset
          IN  /\ ok <=> ret'.err = "none"
              /\ ok => Len(wire'.bytes) = 3
              /\ ~ok => wire' = wire
              /\ ~authKey.set \/ authKey.key = "none"
                    => ret'.err = "Auth key unset"]_vars

\* encryptMessageData threw for the salt alone
C14_Witness ==
    /\ ret.op = "encryptMessageData"
    /\ ret.err = "Unset params"
    /\ authKey = AuthKeyOf("generic")
    /\ salt = Unset
    /\ id # Unset

\* C15: a message of another session that passed the key checks is handled
\* as the same message of this session would be: checked against the
\* window, recorded and returned.
C15_ForeignSession ==
    [][ret'.op = "decryptMessageData" /\ ret'.src = "foreign"
          /\ authKey = AuthKeyOf("generic")
       => /\ ret'.remoteMsgId \in RemoteMsgIds
          /\ LET own == DecryptResult(authKey, id, msgIds, securityChecks,
                             ServerFrame("generic", Zero, id,
                                 ret'.remoteMsgId, 1, <<"obj", "ping">>, 0))
             IN  /\ ret'.err = own.err
                 /\ msgIds' = own.msgIds
                 /\ ret'.remoteSequence = own.remoteSequence
                 /\ ret'.obj = own.obj
          /\ (~ret'.seen \/ ~securityChecks
                => /\ ret'.err = "none"
                   /\ msgIds' = RecordId(msgIds, ret'.remoteMsgId)
                   /\ ret'.obj = <<"obj", "ping">>)]_vars

\* a message of another session was accepted and its id recorded
C15_Witness ==
    /\ ret.op = "decryptMessageData"
    /\ ret.src = "foreign"
    /\ ret.err = "none"
    /\ id # <<9, 9, 1>>
    /\ msgIds = <<IdString(ret.remoteMsgId)>>

\* C16: reset() draws a session id, sets the sequence counter and the last
\* message id to zero, empties the replay window and leaves timeOffset,
\* salt, authKey and securityChecks alone; the content-related message
\* framed next gets sequence number 1 and the server's message decrypted
\* next is accepted, whatever was recorded before.
C16_Reset ==
    [][/\ (ret'.op = "reset"
            => /\ id' \in SessionIds
               /\ sequence' = 0
               /\ lastMsgId' = Zero
               /\ msgIds' = <<>>
               /\ UNCHANGED <<timeOffset, salt, authKey, securityChecks>>)
       /\ (ret'.op = "writeDataAsMessage" /\ mark = "reset"
              /\ ret'.contentRelated
            => ret'.seqNo = 1)
       /\ (ret'.op = "decryptMessageData" /\ ret'.src = "server"
              /\ ret.op = "reset"
            => ret'.err = "none")]_vars

\* after a reset that changed the session id, with timeOffset and salt set,
\* an id recorded before the reset was accepted again
C16_Witness ==
    /\ ret.op = "decryptMessageData"
    /\ ret.err = "none"
    /\ ret.again
    /\ msgIds = <<IdString(ret.remoteMsgId)>>
    /\ id # <<7, 0, 1>>
    /\ timeOffset # 0
    /\ salt # Zero
    /\ sequence = 0

\* C17: an updateTimeOffset call that computes the offset already stored
\* leaves timeOffset and lastMessageId as they were.
C17_SameOffset ==
    [][ret'.op = "updateTimeOffset" /\ ret'.offset = timeOffset
       => timeOffset' = timeOffset /\ lastMsgId' = lastMsgId]_vars

\* the calls of log that are decryptMessageData calls on a frame with id
\* rid and that are over
Decrypted(rid) ==
    {n \in 1 .. Len(log) :
       /\ log[n].op = "decryptMessageData"
       /\ log[n].id = rid
       /\ log[n].err # "pending"}

\* C18: of the decryptMessageData calls on frames with one remote id that
\* are over, however they were interleaved, at most one returned a message
\* and every other threw the duplicate error (checks on, no reset, the
\* window far from full).
C18_OneAccepted ==
    \A rid \in RemoteMsgIds :
       /\ \A n \in Decrypted(rid) :
             log[n].err \in {"none", "Duplicate msgIds"}
       /\ \A n, k \in Decrypted(rid) :
             log[n].err = "none" /\ log[k].err = "none" => n = k
       /\ Decrypted(rid) # {} => \E n \in Decrypted(rid) : log[n].err = "none"

\* two calls on the same id were suspended together; the one that began
\* later returned the message, the one that began first threw
C18_Witness ==
    \E rid \in RemoteMsgIds :
       \E n, k \in Decrypted(rid) :
          /\ n < k
          /\ log[k].overlapped
          /\ log[n].err = "Duplicate msgIds"
          /\ log[k].err = "none"

\* the writeDataAsMessage calls of log
Written == {n \in 1 .. Len(log) : log[n].op = "writeDataAsMessage"}

\* C19: overlapping writeDataAsMessage calls get pairwise distinct message
\* ids, and the call with the larger id never has the smaller sequence
\* number.
C19_IdsAndSeqNos ==
    \A n, k \in Written :
       /\ n # k => log[n].id # log[k].id
       /\ Less(log[n].id, log[k].id) => log[n].seqNo <= log[k].seqNo
       /\ n < k => Less(log[n].id, log[k].id)

\* three calls began before any of them was over, content-related ones
\* among them
C19_Witness ==
    /\ Cardinality({c \in pending : c.op = "writeDataAsMessage"}) = 3
    /\ \E n, k \in Written : log[n].seqNo < log[k].seqNo

\* the message ids of the envelopes in the sink, in the order of the sink
SinkIds == [k \in 1 .. (Len(stream) \div 4) |-> ReadLong(stream[4 * k - 3])]

\* C20: the envelopes are in the sink in increasing order of message id.
C20_SinkOrder ==
    \A n, k \in DOMAIN SinkIds : n < k => Less(SinkIds[n], SinkIds[k])

\* every envelope in the sink is whole: a header of some call, followed at
\* once by the body of that call
C20_EnvelopesWhole ==
    \A k \in DOMAIN SinkIds :
       \E n \in Written :
          /\ log[n].id = SinkIds[k]
          /\ ReadInt(stream[4 * k - 2]) = log[n].seqNo
          /\ ReadInt(stream[4 * k - 1]) = ChunkLen(stream[4 * k])

====
